---- MODULE Spec2Model ----
(***************************************************************************)
(* Hostel Management API (src/main.py, src/schemas.py): the bearer-token   *)
(* session service, the role gate and the resource handlers, modelled as   *)
(* a state machine over the document store.                                *)
(*                                                                         *)
(* Strings that carry identifiers are records [wf, n]: wf = TRUE is a      *)
(* well-formed 24-hex string naming ObjectId n, wf = FALSE is any string   *)
(* bson.ObjectId() refuses.  HTTP statuses are the numbers the code        *)
(* raises; 200 is a normal return.                                         *)
(***************************************************************************)
EXTENDS Integers, Sequences, FiniteSets, TLC

VARIABLES
    now,      \* datetime.now(timezone.utc), in token-lifetime units
    db,       \* the document store: collection name -> (ObjectId -> document)
    nextOid,  \* the next ObjectId the store hands out
    quota,    \* inserts the run still allows (the bound on the store's size)
    pending,  \* allocate_room calls between their two store writes
    resp      \* the last request and its response

vars == <<now, db, nextOid, quota, pending, resp>>

(* ------------------------------ bounds -------------------------------- *)
MaxTime == 3        \* the clock stops here
MaxDocs == 1        \* documents the handlers may insert in one run (Spec)
MaxRecordDocs == 2  \* the same, in the record specification (SpecRecords)
MaxRoomDocs == 3    \* the same, in the room specification (SpecRooms)

\* JWT_EXPIRES_MIN = int(os.getenv("JWT_EXPIRES_MIN", "60")): the configured
\* token lifetime; the model runs with a lifetime of 2 clock units.
JWT_EXPIRES_MIN == 2

JWT_SECRET == "dev-secret"

(* ------------------------------ values -------------------------------- *)
Str(oid) == [wf |-> TRUE, n |-> oid]
Malformed == [wf |-> FALSE, n |-> 0]
NoId == [wf |-> FALSE, n |-> -1]      \* no identity / no value (None)

Collections == {"user", "student", "hostel", "room", "roomallocation", "fee",
                "attendance", "lateentry", "leaverequest", "complaint",
                "complaintupdate", "notification"}

EmptyColl == [o \in {} |-> 0]

\* Users are inserted out of band under ObjectIds 1 .. 5; the handlers'
\* documents get the ObjectIds after theirs.
UserOids == 1 .. 5
FirstDocOid == Cardinality(UserOids) + 1

NoToken == [sub |-> NoId, role |-> "", exp |-> -1, key |-> ""]

(* ------------------------- session token service ---------------------- *)
encode_token(oid, user) ==
    [sub |-> Str(oid), role |-> user.role, exp |-> now + JWT_EXPIRES_MIN,
     key |-> JWT_SECRET]

\* jwt.decode(token, JWT_SECRET, algorithms=["HS256"]): the signature is
\* verified first, then exp.  Whether a token is expired AT its expiry
\* instant depends on the PyJWT release (exp < now or exp <= now): atExpiry
\* is that choice.
M_jwt_decode(token, atExpiry) ==
    IF token.key # JWT_SECRET THEN "invalid" ELSE "ok"

jwt_decode(token, atExpiry) ==
    IF token.key # JWT_SECRET THEN "invalid"
    ELSE IF token.exp < now \/ (token.exp = now /\ atExpiry) THEN "expired"
    ELSE "ok"

Fail(status, detail, id, role) ==
    [ok |-> FALSE, status |-> status, detail |-> detail, id |-> id, role |-> role]

get_current_user(token, atExpiry) ==
    LET d == jwt_decode(token, atExpiry) IN
    IF d = "expired" THEN Fail(401, "Token expired", NoId, "")
    ELSE IF d = "invalid" THEN Fail(401, "Invalid token", NoId, "")
    ELSE IF token.sub.n \notin DOMAIN db.user
         THEN Fail(401, "User not found", NoId, "")
    ELSE [ok |-> TRUE, status |-> 200, detail |-> "",
          id |-> Str(token.sub.n), role |-> db.user[token.sub.n].role]

(* -------------------------- access control gate ----------------------- *)
M_require_roles(roles, token, atExpiry) == get_current_user(token, atExpiry)

require_roles(roles, token, atExpiry) ==
    LET user == get_current_user(token, atExpiry) IN
    IF ~user.ok THEN user
    ELSE IF user.role \notin roles
         THEN Fail(403, "Forbidden: insufficient role", user.id, user.role)
    ELSE user

(* ------------------------------ utility ------------------------------- *)
M_not_own_record(user, owner_id) == user.role = "student" /\ FALSE

\* The ownership test of get_student, leave_request and create_complaint:
\* user.role == "student" and <owner id> != user.id.
not_own_record(user, owner_id) == user.role = "student" /\ owner_id # user.id

to_object_id(id_str) ==
    IF id_str.wf THEN [ok |-> TRUE, oid |-> id_str.n]
    ELSE [ok |-> FALSE, oid |-> 0]

\* find_one with a filter that several documents match returns the first in
\* the store's natural order, which is insertion order here.
Min(S) == CHOOSE x \in S : \A y \in S : x <= y

find_one_by_email(email) ==
    LET hits == {o \in DOMAIN db.user : db.user[o].email = email} IN
    IF hits = {} THEN 0 ELSE Min(hits)

\* The request record every handler leaves: who asked (as validated), what
\* for, and what came back.  valid tells whether the bearer token presented
\* with the request passes get_current_user.
Response(op, user, valid, status, detail, arg, out) ==
    [op |-> op, id |-> user.id, role |-> user.role, valid |-> valid,
     status |-> status, detail |-> detail, arg |-> arg, out |-> out]

Anonymous == [id |-> NoId, role |-> ""]

\* A dependency's HTTPException: the body is never looked at.
Rejected(op, user) ==
    Response(op, user, user.status # 401, user.status, user.detail, NoId, NoId)

\* A handler's own HTTPException.
Error(op, user, status, detail, arg) ==
    Response(op, user, TRUE, status, detail, arg, NoId)

(* ------------------------------ auth routes --------------------------- *)
login(email, password) ==
    LET o == find_one_by_email(email) IN
    /\ resp' = IF o = 0 \/ db.user[o].password # password
               THEN Response("login", Anonymous, FALSE, 401,
                             "Invalid email or password",
                             [email |-> email, password |-> password], NoToken)
               ELSE Response("login", Anonymous, FALSE, 200, "",
                             [email |-> email, password |-> password],
                             encode_token(o, db.user[o]))
    /\ UNCHANGED <<now, db, nextOid, quota, pending>>

me(token, atExpiry) ==
    LET user == get_current_user(token, atExpiry) IN
    /\ resp' = IF ~user.ok
               THEN Response("me", user, FALSE, user.status, user.detail,
                             token, NoId)
               ELSE Response("me", user, TRUE, 200, "", token, user.id)
    /\ UNCHANGED <<now, db, nextOid, quota, pending>>

(* ------------------------------ environment --------------------------- *)
EnvStep(what) == Response(what, Anonymous, FALSE, 0, "", NoId, NoId)

Tick ==
    /\ now < MaxTime
    /\ now' = now + 1
    /\ resp' = EnvStep("tick")
    /\ UNCHANGED <<db, nextOid, quota, pending>>

\* A user record removed from the store out of band (revocation by deletion).
RemoveUser(o) ==
    /\ o \in DOMAIN db.user
    /\ db' = [db EXCEPT !.user = [x \in DOMAIN db.user \ {o} |-> db.user[x]]]
    /\ resp' = EnvStep("remove_user")
    /\ UNCHANGED <<now, nextOid, quota, pending>>

(* ------------------------ document store adapter ---------------------- *)
\* create_document(collection, data): stamps created_at = updated_at = now,
\* inserts under a fresh ObjectId and returns str(id).
Stamped(doc) == [created_at |-> now, updated_at |-> now] @@ doc

insert_one(d, coll, doc) ==
    [d EXCEPT ![coll] = (nextOid :> Stamped(doc)) @@ @]

create_document(coll, doc) ==
    /\ quota > 0
    /\ db' = insert_one(db, coll, doc)
    /\ nextOid' = nextOid + 1
    /\ quota' = quota - 1

\* update_one({"_id": oid}, {"$set": patch}) on store d: no upsert.
update_one_set(d, coll, oid, patch) ==
    IF oid \in DOMAIN d[coll]
    THEN [d EXCEPT ![coll][oid] = (patch @@ [updated_at |-> now]) @@ @]
    ELSE d

update_set(coll, oid, patch) == update_one_set(db, coll, oid, patch)

delete_one(coll, oid) ==
    [db EXCEPT ![coll] = [x \in DOMAIN db[coll] \ {oid} |-> db[coll][x]]]

NoWrite == UNCHANGED <<now, db, nextOid, quota, pending>>

\* A role-gated handler that only inserts its validated body.
GatedCreate(op, roles, coll, token, atExpiry, body) ==
    LET user == require_roles(roles, token, atExpiry) IN
    IF ~user.ok
    THEN resp' = Rejected(op, user) /\ NoWrite
    ELSE /\ create_document(coll, body)
         /\ resp' = Response(op, user, TRUE, 200, "", body, Str(nextOid))
         /\ UNCHANGED <<now, pending>>

(* ------------------------------ students ------------------------------ *)
create_student(token, atExpiry, student) ==
    GatedCreate("create_student", {"admin", "warden", "staff"}, "student",
                token, atExpiry, student)

get_student(token, atExpiry, student_id) ==
    LET user == get_current_user(token, atExpiry)
        oid == to_object_id(student_id)
    IN  /\ resp' =
             IF ~user.ok THEN Rejected("get_student", user)
             ELSE IF ~oid.ok
                  THEN Error("get_student", user, 400, "Invalid id",
                                student_id)
             ELSE IF oid.oid \notin DOMAIN db.student
                  THEN Response("get_student", user, TRUE, 404,
                                "Student not found", student_id, NoId)
             ELSE IF not_own_record(user, db.student[oid.oid].user_id)
                  THEN Error("get_student", user, 403, "Forbidden", student_id)
             ELSE Response("get_student", user, TRUE, 200, "", student_id,
                           [id |-> Str(oid.oid)] @@ db.student[oid.oid])
        /\ NoWrite

\* A gated handler that changes one document named by a path id: 400 on a
\* malformed id, 404 when no document matches, else after, the store as the
\* handler's update_one or delete_one leaves it.
GatedWrite(op, roles, coll, token, atExpiry, id_str, missing, after) ==
    LET user == require_roles(roles, token, atExpiry)
        oid == to_object_id(id_str)
    IN  IF ~user.ok THEN resp' = Rejected(op, user) /\ NoWrite
        ELSE IF ~oid.ok
             THEN /\ resp' = Error(op, user, 400, "Invalid id",
                                      id_str)
                  /\ NoWrite
        ELSE IF oid.oid \notin DOMAIN db[coll]
             THEN /\ resp' = Error(op, user, 404, missing, id_str)
                  /\ NoWrite
        ELSE /\ db' = after
             /\ resp' = Response(op, user, TRUE, 200, "", id_str, Str(oid.oid))
             /\ UNCHANGED <<now, nextOid, quota, pending>>

update_student(token, atExpiry, student_id, payload) ==
    GatedWrite("update_student", {"admin", "warden", "staff"}, "student",
               token, atExpiry, student_id, "Student not found",
               update_set("student", to_object_id(student_id).oid, payload))

delete_student(token, atExpiry, student_id) ==
    GatedWrite("delete_student", {"admin", "warden"}, "student",
               token, atExpiry, student_id, "Student not found",
               delete_one("student", to_object_id(student_id).oid))

(* --------------------- hostels, rooms, availability ------------------- *)
create_hostel(token, atExpiry, hostel) ==
    GatedCreate("create_hostel", {"admin", "warden"}, "hostel",
                token, atExpiry, hostel)

\* room is the validated Room body: capacity >= 1, and current_occupancy as
\* the client sent it (0 when left out).
create_room(token, atExpiry, room) ==
    GatedCreate("create_room", {"admin", "warden"}, "room",
                token, atExpiry, room)

\* The handler declares no dependency: it never reads the Authorization
\* header.  token is what the request carried, recorded in resp.valid only.
get_available_rooms(token, atExpiry) ==
    LET rooms == {o \in DOMAIN db.room :
                    db.room[o].current_occupancy < db.room[o].capacity}
    IN  /\ resp' = Response("get_available_rooms", Anonymous,
                            get_current_user(token, atExpiry).ok, 200, "",
                            NoId, rooms)
        /\ NoWrite

\* allocate_room, up to its first store write: the gate, then
\* create_document("roomallocation", alloc).  The call is then in flight.
allocate_room(token, atExpiry, alloc) ==
    LET user == require_roles({"admin", "warden", "staff"}, token, atExpiry) IN
    IF ~user.ok
    THEN resp' = Rejected("allocate_room", user) /\ NoWrite
    ELSE /\ create_document("roomallocation", alloc)
         /\ pending' = pending \cup
               {[aid |-> nextOid, room_id |-> alloc.room_id,
                 student_id |-> alloc.student_id, user |-> user]}
         /\ resp' = EnvStep("allocate_room_in_flight")
         /\ UNCHANGED now

M_inc_occupancy(oid) ==
    IF oid \in DOMAIN db.room
       /\ db.room[oid].current_occupancy < db.room[oid].capacity
    THEN [db EXCEPT !.room[oid] =
             [current_occupancy |-> @.current_occupancy + 1,
              updated_at |-> now] @@ @]
    ELSE db

\* $inc of one matching room; no room matches: nothing is written.
inc_occupancy(oid) ==
    IF oid \in DOMAIN db.room
    THEN [db EXCEPT !.room[oid] =
             [current_occupancy |-> @.current_occupancy + 1,
              updated_at |-> now] @@ @]
    ELSE db

\* allocate_room, the rest of the call p: to_object_id(alloc.room_id), the
\* atomic increment, the return of the allocation's id.
allocate_room_increment(p) ==
    LET oid == to_object_id(p.room_id)
        arg == [student_id |-> p.student_id, room_id |-> p.room_id,
                aid |-> p.aid]
    IN  /\ p \in pending
        /\ pending' = pending \ {p}
        /\ IF ~oid.ok
           THEN /\ resp' = Response("allocate_room", p.user, TRUE, 400,
                                    "Invalid id", arg, NoId)
                /\ UNCHANGED db
           ELSE /\ db' = inc_occupancy(oid.oid)
                /\ resp' = Response("allocate_room", p.user, TRUE, 200, "",
                                    arg, Str(p.aid))
        /\ UNCHANGED <<now, nextOid, quota>>

\* seed_rooms: two demo rooms when the collection is empty; no dependency.
seed_rooms(token, atExpiry) ==
    /\ IF DOMAIN db.room = {}
       THEN /\ quota > 1
            /\ db' = [db EXCEPT !.room =
                 (nextOid :> [capacity |-> 2, current_occupancy |-> 0,
                              created_at |-> now, updated_at |-> now])
                 @@ (nextOid + 1 :> [capacity |-> 3, current_occupancy |-> 1,
                              created_at |-> now, updated_at |-> now])]
            /\ nextOid' = nextOid + 2
            /\ quota' = quota - 2
       ELSE UNCHANGED <<db, nextOid, quota>>
    /\ resp' = Response("seed_rooms", Anonymous,
                        get_current_user(token, atExpiry).ok, 200, "",
                        NoId, NoId)
    /\ UNCHANGED <<now, pending>>

(* --------------------------- fees and payments ------------------------ *)
create_fee(token, atExpiry, fee) ==
    GatedCreate("create_fee", {"admin", "warden", "staff"}, "fee",
                token, atExpiry, fee)

pay_fee(token, atExpiry, fee_id, transaction_id) ==
    GatedWrite("pay_fee", {"admin", "warden", "staff"}, "fee",
               token, atExpiry, fee_id, "Fee not found",
               update_set("fee", to_object_id(fee_id).oid,
                          [status |-> "paid", transaction_id |-> transaction_id,
                           payment_date |-> now]))

(* ------------------------------ attendance ---------------------------- *)
mark_attendance(token, atExpiry, a) ==
    GatedCreate("mark_attendance", {"admin", "warden", "staff"}, "attendance",
                token, atExpiry, a)

late_entry(token, atExpiry, entry) ==
    GatedCreate("late_entry", {"admin", "warden", "staff"}, "lateentry",
                token, atExpiry, entry)

\* A handler open to every authenticated caller, self-only for students.
SelfCreate(op, coll, token, atExpiry, body) ==
    LET user == get_current_user(token, atExpiry) IN
    IF ~user.ok THEN resp' = Rejected(op, user) /\ NoWrite
    ELSE IF not_own_record(user, body.student_id)
         THEN /\ resp' = Error(op, user, 403, "Forbidden", body)
              /\ NoWrite
    ELSE /\ create_document(coll, body)
         /\ resp' = Response(op, user, TRUE, 200, "", body, Str(nextOid))
         /\ UNCHANGED <<now, pending>>

leave_request(token, atExpiry, req) ==
    SelfCreate("leave_request", "leaverequest", token, atExpiry, req)

update_leave_status(token, atExpiry, leave_id, status) ==
    GatedWrite("update_leave_status", {"admin", "warden", "staff"},
               "leaverequest", token, atExpiry, leave_id,
               "Leave request not found",
               update_set("leaverequest", to_object_id(leave_id).oid,
                          [status |-> status]))

(* ------------------------------ complaints ---------------------------- *)
create_complaint(token, atExpiry, c) ==
    SelfCreate("create_complaint", "complaint", token, atExpiry, c)

M_force_in_progress(d, oid) ==
    IF d.complaint[oid].status = "open"
    THEN update_one_set(d, "complaint", oid, [status |-> "in_progress"])
    ELSE d

\* The update_one that follows the insert: status is set whatever it was.
force_in_progress(d, oid) ==
    update_one_set(d, "complaint", oid, [status |-> "in_progress"])

\* resp.arg carries the path id and doc, the complaint find_one returned.
add_complaint_update(token, atExpiry, complaint_id, upd) ==
    LET user == require_roles({"admin", "warden", "staff"}, token, atExpiry)
        oid == to_object_id(complaint_id)
        op == "add_complaint_update"
        arg(doc) == [complaint_id |-> complaint_id, doc |-> doc]
    IN  IF ~user.ok THEN resp' = Rejected(op, user) /\ NoWrite
        ELSE IF ~oid.ok
             THEN /\ resp' = Error(op, user, 400, "Invalid id", arg(NoId))
                  /\ NoWrite
        ELSE IF oid.oid \notin DOMAIN db.complaint
             THEN /\ resp' = Error(op, user, 404, "Complaint not found",
                                   arg(NoId))
                  /\ NoWrite
        ELSE /\ quota > 0
             /\ db' = force_in_progress(insert_one(db, "complaintupdate", upd),
                                        oid.oid)
             /\ nextOid' = nextOid + 1
             /\ quota' = quota - 1
             /\ resp' = Response(op, user, TRUE, 200, "",
                                 arg(db.complaint[oid.oid]), Str(nextOid))
             /\ UNCHANGED <<now, pending>>

(* ----------------------------- notifications -------------------------- *)
create_notification_api(token, atExpiry, n) ==
    GatedCreate("create_notification_api", {"admin", "warden", "staff"},
                "notification", token, atExpiry, n)

(* ------------------------ the session specification ------------------- *)
Emails == {"a@h.org", "b@h.org"}
Passwords == {"pw1", "pw2"}
AuthRoles == {"admin", "student"}
AuthOids == {1, 2}

UserDoc == [email : Emails, password : Passwords, role : AuthRoles]

\* Bearer tokens a client may present: any the server signed for a user id,
\* with any expiry it could have stamped, and the same re-signed with a key
\* that is not JWT_SECRET.
AuthTokens ==
    [sub : {Str(o) : o \in AuthOids}, role : AuthRoles,
     exp : 0 .. (MaxTime + JWT_EXPIRES_MIN), key : {JWT_SECRET, "other-key"}]

EmptyDb == [c \in Collections |-> EmptyColl]

InitAuth ==
    /\ now = 0
    /\ \E users \in [AuthOids -> UserDoc] : db = [EmptyDb EXCEPT !.user = users]
    /\ nextOid = FirstDocOid
    /\ quota = 0
    /\ pending = {}
    /\ resp = EnvStep("start")

NextAuth ==
    \/ Tick
    \/ \E o \in AuthOids : RemoveUser(o)
    \/ \E e \in Emails, p \in Passwords : login(e, p)
    \/ \E t \in AuthTokens, b \in BOOLEAN : me(t, b)

SpecAuth == InitAuth /\ [][NextAuth]_vars

(* ------------------------ the handler specification ------------------- *)
\* The user collection the handlers run against: one user of each role, and
\* one whose stored role is spelled "Student" (AuthUser.role is a plain str
\* and nothing validates a stored role).
Users ==
    (1 :> [email |-> "admin@h.org", password |-> "pw1", role |-> "admin"]) @@
    (2 :> [email |-> "warden@h.org", password |-> "pw2", role |-> "warden"]) @@
    (3 :> [email |-> "staff@h.org", password |-> "pw3", role |-> "staff"]) @@
    (4 :> [email |-> "s4@h.org", password |-> "pw4", role |-> "student"]) @@
    (5 :> [email |-> "s5@h.org", password |-> "pw5", role |-> "Student"])

\* Bearer tokens a request may carry: one the server signed for user o (0:
\* a user since removed), one it signed that runs out at instant 0, and one
\* signed with another key.
SignedFor(o) ==
    [sub |-> Str(o),
     role |-> IF o \in DOMAIN Users THEN Users[o].role ELSE "staff",
     exp |-> JWT_EXPIRES_MIN, key |-> JWT_SECRET]
Expired == [SignedFor(1) EXCEPT !.exp = 0]
Forged == [SignedFor(1) EXCEPT !.key = "other-key"]

Tokens == {SignedFor(o) : o \in {0} \cup UserOids} \cup {Expired, Forged}
RoomTokens == {SignedFor(1), SignedFor(3), SignedFor(4), Forged}
RecordTokens == {SignedFor(3), SignedFor(4), SignedFor(5), Forged}

\* A request: its token and, for a token at its expiry instant, how the
\* installed PyJWT treats that instant.
RequestsWith(T) == {r \in T \X BOOLEAN : r[1].exp = now \/ r[2]}
Requests == RequestsWith(Tokens)
RoomRequests == RequestsWith(RoomTokens)
RecordRequests == RequestsWith(RecordTokens)

\* Identifier strings a request may carry: every id the store has handed
\* out, the next one, and a string ObjectId() refuses.
ReqIds == {Str(o) : o \in FirstDocOid .. nextOid} \cup {Malformed}
OwnerIds == {Str(4), Str(5)}

Students == [user_id : OwnerIds, phone : {"none"}]
StudentPatches == {[phone |-> "555"], [user_id |-> Str(5)]}
Hostels == [name : {"H1"}]
Rooms == [capacity : {1}, current_occupancy : {0, 1}]
Allocations == [student_id : {Str(4)}, room_id : ReqIds]
Fees == [student_id : {Str(4)}, status : {"unpaid"}, transaction_id : {"none"}]
TransactionIds == {"none", "tx1"}
Attendances == [student_id : {Str(4)}, status : {"present"}]
LateEntries == [student_id : {Str(4)}, reason : {"late"}]
LeaveRequests == [student_id : OwnerIds, status : {"pending"}]
LeaveStatuses == {"approved", "pending"}
ComplaintStatuses == {"open", "in_progress", "resolved", "closed"}
Complaints == [student_id : OwnerIds, status : ComplaintStatuses]
ComplaintUpdates == [complaint_id : {Str(FirstDocOid)}, updated_by : {Str(3)}]
Notifications == [user_id : {Str(4)}, status : {"unread"}]

InitStore(n) ==
    /\ now = 0
    /\ db = [EmptyDb EXCEPT !.user = Users]
    /\ nextOid = FirstDocOid
    /\ quota = n
    /\ pending = {}
    /\ resp = EnvStep("start")

Init == InitStore(MaxDocs)

Next ==
    \/ \E r \in Requests : me(r[1], r[2])
    \/ \E r \in Requests, x \in Students : create_student(r[1], r[2], x)
    \/ \E r \in Requests, i \in ReqIds : get_student(r[1], r[2], i)
    \/ \E r \in Requests, i \in ReqIds, x \in StudentPatches :
          update_student(r[1], r[2], i, x)
    \/ \E r \in Requests, i \in ReqIds : delete_student(r[1], r[2], i)
    \/ \E r \in Requests, x \in Hostels : create_hostel(r[1], r[2], x)
    \/ \E r \in Requests, x \in Rooms : create_room(r[1], r[2], x)
    \/ \E r \in Requests : get_available_rooms(r[1], r[2])
    \/ \E r \in Requests, x \in Allocations : allocate_room(r[1], r[2], x)
    \/ \E p \in pending : allocate_room_increment(p)
    \/ \E r \in Requests : seed_rooms(r[1], r[2])
    \/ \E r \in Requests, x \in Fees : create_fee(r[1], r[2], x)
    \/ \E r \in Requests, i \in ReqIds, x \in TransactionIds :
          pay_fee(r[1], r[2], i, x)
    \/ \E r \in Requests, x \in Attendances : mark_attendance(r[1], r[2], x)
    \/ \E r \in Requests, x \in LateEntries : late_entry(r[1], r[2], x)
    \/ \E r \in Requests, x \in LeaveRequests : leave_request(r[1], r[2], x)
    \/ \E r \in Requests, i \in ReqIds, x \in LeaveStatuses :
          update_leave_status(r[1], r[2], i, x)
    \/ \E r \in Requests, x \in Complaints : create_complaint(r[1], r[2], x)
    \/ \E r \in Requests, i \in ReqIds, x \in ComplaintUpdates :
          add_complaint_update(r[1], r[2], i, x)
    \/ \E r \in Requests, x \in Notifications :
          create_notification_api(r[1], r[2], x)

Spec == Init /\ [][Next]_vars

\* The leave and complaint handlers alone, with room for a complaint and an
\* update of it.
InitRecords == InitStore(MaxRecordDocs)

NextRecords ==
    \/ \E r \in RecordRequests, x \in LeaveRequests :
          leave_request(r[1], r[2], x)
    \/ \E r \in RecordRequests, i \in ReqIds, x \in LeaveStatuses :
          update_leave_status(r[1], r[2], i, x)
    \/ \E r \in RecordRequests, x \in Complaints :
          create_complaint(r[1], r[2], x)
    \/ \E r \in RecordRequests, i \in ReqIds, x \in ComplaintUpdates :
          add_complaint_update(r[1], r[2], i, x)

SpecRecords == InitRecords /\ [][NextRecords]_vars

\* The room handlers alone, with room for more allocations than a room holds.
InitRooms == InitStore(MaxRoomDocs)

NextRooms ==
    \/ \E r \in RoomRequests, x \in Rooms : create_room(r[1], r[2], x)
    \/ \E r \in RoomRequests : get_available_rooms(r[1], r[2])
    \/ \E r \in RoomRequests, x \in Allocations : allocate_room(r[1], r[2], x)
    \/ \E p \in pending : allocate_room_increment(p)
    \/ \E r \in RoomRequests : seed_rooms(r[1], r[2])

SpecRooms == InitRooms /\ [][NextRooms]_vars

(* ============================== claims ================================ *)
\* Steps that are no response of a handler.
EnvOps == {"start", "tick", "remove_user", "allocate_room_in_flight"}

\* The allow-lists of the interface table, per role-gated operation.
AllowList ==
    [create_student |-> {"admin", "warden", "staff"},
     update_student |-> {"admin", "warden", "staff"},
     delete_student |-> {"admin", "warden"},
     create_hostel |-> {"admin", "warden"},
     create_room |-> {"admin", "warden"},
     allocate_room |-> {"admin", "warden", "staff"},
     create_fee |-> {"admin", "warden", "staff"},
     pay_fee |-> {"admin", "warden", "staff"},
     mark_attendance |-> {"admin", "warden", "staff"},
     late_entry |-> {"admin", "warden", "staff"},
     update_leave_status |-> {"admin", "warden", "staff"},
     add_complaint_update |-> {"admin", "warden", "staff"},
     create_notification_api |-> {"admin", "warden", "staff"}]

StoreUnchanged == db' = db /\ nextOid' = nextOid /\ pending' = pending

\* C1: on every role-gated operation an authenticated caller whose role is
\* not in the operation's allow-list gets 403 and the store is left as it
\* was, and a caller whose role is in the list is never answered 403: staff
\* is refused on delete_student, create_hostel and create_room and let
\* through on create_student and update_student.
C1_RoleGate ==
    [][(resp'.op \in DOMAIN AllowList /\ resp'.valid) =>
          IF resp'.role \in AllowList[resp'.op]
          THEN resp'.status # 403
          ELSE resp'.status = 403 /\ StoreUnchanged]_vars

C1_Witness ==
    /\ resp.op = "delete_student"
    /\ resp.role = "staff"
    /\ resp.status = 403

\* C2: /api/auth/me returns an identity only for a token signed with
\* JWT_SECRET, not past its expiry and naming a user now in the store; a
\* well-signed token past its expiry is refused 401 "Token expired", a token
\* with any other signature 401 "Invalid token", a well-signed unexpired
\* token of a removed user 401 "User not found"; a refusal carries no
\* identity.
C2_TokenValidation ==
    resp.op = "me" =>
        LET t == resp.arg
            signed == t.key = JWT_SECRET
            known == t.sub.n \in DOMAIN db.user
        IN  /\ resp.status \in {200, 401}
            /\ resp.status = 200 =>
                  /\ signed /\ t.exp >= now /\ known
                  /\ resp.out = t.sub /\ resp.id = t.sub
                  /\ resp.role = db.user[t.sub.n].role
            /\ resp.status = 401 => resp.out = NoId /\ resp.id = NoId
            /\ (signed /\ t.exp < now) => resp.detail = "Token expired"
            /\ ~signed => resp.detail = "Invalid token"
            /\ (signed /\ t.exp > now /\ ~known) =>
                  resp.detail = "User not found"
            /\ resp.detail # "" => resp.status = 401

C2_Witness ==
    /\ resp.op = "me"
    /\ resp.status = 401
    /\ resp.detail = "User not found"
    /\ resp.arg.key = JWT_SECRET
    /\ resp.arg.exp > now

\* C3: login succeeds exactly when the (email, password) pair is that of a
\* stored user, whatever the user collection holds: then the token's role is
\* a matching user's stored role, otherwise the answer is 401 with no token.
C3_LoginMatchesStoredUser ==
    resp.op = "login" =>
        LET matching == {o \in DOMAIN db.user :
                            /\ db.user[o].email = resp.arg.email
                            /\ db.user[o].password = resp.arg.password}
        IN  IF matching # {}
            THEN /\ resp.status = 200
                 /\ \E o \in matching : resp.out.role = db.user[o].role
            ELSE resp.status = 401 /\ resp.out = NoToken

\* C4: every handler other than login answers a request whose bearer token
\* does not validate with 401 and nothing read from or written to the store;
\* get_available_rooms, for a validated caller, returns exactly the rooms
\* with current_occupancy < capacity.
C4_AuthenticatedOnly ==
    [][resp'.op \notin EnvOps \cup {"login"} =>
          /\ ~resp'.valid =>
                resp'.status = 401 /\ resp'.out = NoId /\ StoreUnchanged
          /\ (resp'.op = "get_available_rooms" /\ resp'.valid) =>
                resp'.out = {o \in DOMAIN db.room :
                    db.room[o].current_occupancy < db.room[o].capacity}]_vars

\* Spellings of the student role.
StudentSpellings == {"student", "Student", "STUDENT"}

\* C5: get_student answers a caller whose role is student, in any spelling,
\* 403 and no document when the document's user_id is not the caller's id;
\* a student reading their own record, and admin, warden and staff, get the
\* document.
C5_StudentReadsOwnRecordOnly ==
    (/\ resp.op = "get_student"
     /\ resp.valid
     /\ resp.arg.wf
     /\ resp.arg.n \in DOMAIN db.student) =>
        LET doc == db.student[resp.arg.n] IN
        IF resp.role \in StudentSpellings /\ doc.user_id # resp.id
        THEN resp.status = 403 /\ resp.out = NoId
        ELSE resp.status = 200 /\ resp.out.user_id = doc.user_id

\* C6: leave_request and create_complaint, for an authenticated caller: a
\* student submitting a student_id other than their own id gets 403 and no
\* record is created; any other caller gets the id of one new record that
\* holds the submitted body.
SelfOps == [leave_request |-> "leaverequest", create_complaint |-> "complaint"]

C6_SelfOnlyCreate ==
    [][(resp'.op \in DOMAIN SelfOps /\ resp'.valid) =>
          LET coll == SelfOps[resp'.op]
              body == resp'.arg
          IN  IF resp'.role = "student" /\ body.student_id # resp'.id
              THEN resp'.status = 403 /\ resp'.out = NoId /\ StoreUnchanged
              ELSE /\ resp'.status = 200
                   /\ DOMAIN db'[coll] = DOMAIN db[coll] \cup {resp'.out.n}
                   /\ resp'.out.n \notin DOMAIN db[coll]
                   /\ db'[coll][resp'.out.n].student_id = body.student_id
                   /\ db'[coll][resp'.out.n].status = body.status]_vars

C6_Witness ==
    /\ resp.op = "create_complaint"
    /\ resp.role = "student"
    /\ resp.arg.student_id # resp.id
    /\ resp.status = 403

\* A step that completes an allocate_room call with the allocation's id.
Allocated == resp'.op = "allocate_room" /\ resp'.status = 200

AllocationsOf(d, o) ==
    {a \in DOMAIN d.roomallocation : d.roomallocation[a].room_id = Str(o)}

\* C7: every allocate_room call by an allowed role creates one RoomAllocation
\* record, and when it names an existing room it returns the record's id and
\* adds exactly 1 to that room's current_occupancy and to no other room's,
\* whatever the capacity and however the calls interleave; no other step
\* changes a room's occupancy.
C7_AllocateIncrements ==
    [][/\ \A o \in DOMAIN db.room :
            /\ o \in DOMAIN db'.room
            /\ db'.room[o].capacity = db.room[o].capacity
            /\ db'.room[o].current_occupancy =
                  db.room[o].current_occupancy
                  + (IF Allocated /\ resp'.arg.room_id = Str(o) THEN 1 ELSE 0)
       /\ Allocated =>
            /\ resp'.out = Str(resp'.arg.aid)
            /\ resp'.arg.aid \in DOMAIN db'.roomallocation
            /\ db'.roomallocation[resp'.arg.aid].room_id = resp'.arg.room_id
       /\ resp'.op = "allocate_room_in_flight" =>
            Cardinality(DOMAIN db'.roomallocation)
               = Cardinality(DOMAIN db.roomallocation) + 1
       /\ \A p \in pending :
            (p.room_id.wf /\ p \notin pending') => Allocated]_vars

\* Two allocations of a room of capacity 1 created empty: occupancy 2.
C7_Witness ==
    \E o \in DOMAIN db.room :
        /\ resp.op = "allocate_room"
        /\ resp.status = 200
        /\ resp.arg.room_id = Str(o)
        /\ Cardinality(AllocationsOf(db, o)) > db.room[o].capacity
        /\ db.room[o].current_occupancy = Cardinality(AllocationsOf(db, o))

C9_OccupancyOnlyByAllocation ==
    [][/\ \A o \in DOMAIN db'.room \ DOMAIN db.room :
            db'.room[o].current_occupancy = 0
       /\ \A o \in DOMAIN db.room \cap DOMAIN db'.room :
            db'.room[o].current_occupancy =
                  db.room[o].current_occupancy
                  + (IF Allocated /\ resp'.arg.room_id = Str(o) THEN 1 ELSE 0)
      ]_vars

\* Operations that take an identifier string from the caller.
IdOps == {"get_student", "update_student", "delete_student", "pay_fee",
          "update_leave_status", "add_complaint_update", "allocate_room"}

\* The identifier string of a request that got past the dependencies.
IdOf(r) ==
    IF r.op = "allocate_room" THEN r.arg.room_id
    ELSE IF r.op = "add_complaint_update" THEN r.arg.complaint_id
    ELSE r.arg

\* C10: a call of one of these operations that got past the dependencies is
\* answered 400 when its identifier is malformed, and a call answered 400
\* has written nothing: the store is as it was before the call, and for
\* allocate_room no RoomAllocation of the call is in the store.
C10_MalformedIdWritesNothing ==
    [][(resp'.op \in IdOps /\ resp'.status \notin {401, 403}) =>
          /\ ~IdOf(resp').wf => resp'.status = 400
          /\ resp'.status = 400 =>
                /\ StoreUnchanged \/ resp'.op = "allocate_room"
                /\ resp'.op = "allocate_room" =>
                      resp'.arg.aid \notin DOMAIN db'.roomallocation]_vars

====
